---------------------------- MODULE Spec2Model ----------------------------
(***************************************************************************)
(* Model of the incremental sankey difference of two profiles              *)
(* (perun/view_diff/sankey_incremental/run.py): the Graph of positional    *)
(* nodes, the per-link Stats, the trace expansion of process_traces and    *)
(* the compact encoding of to_jinja_string.                                *)
(*                                                                         *)
(* Python strings that the code splits or formats (uids, "uid#pos" node    *)
(* names, formatted numbers) are sequences of one-character strings, so    *)
(* that str.split, int() and f-strings are computed and not assumed.       *)
(* Metric names and role names are never taken apart and stay TLA+ strings.*)
(***************************************************************************)
EXTENDS Integers, Sequences, FiniteSets, TLC

(***************************************************************************)
(* Bounds of the model                                                     *)
(***************************************************************************)
\* number of resource records of the two profiles together
MaxRecords == 3

\* greatest max_attempts that wait_until_server_starts is called with
MaxAttempts == 3

(***************************************************************************)
(* Strings                                                                 *)
(***************************************************************************)
Digits == <<"0", "1", "2", "3", "4", "5", "6", "7", "8", "9">>

IsDigit(c) == \E i \in 1..10 : Digits[i] = c

DigitVal(c) == (CHOOSE i \in 1..10 : Digits[i] = c) - 1

\* str(n) / f"{n}" of a non-negative int
RECURSIVE StrOfNat(_)
StrOfNat(n) ==
    IF n < 10 THEN <<Digits[n + 1]>>
    ELSE StrOfNat(n \div 10) \o <<Digits[(n % 10) + 1]>>

\* int(s) for a string of this alphabet; -1 stands for the ValueError
RECURSIVE IntAcc(_, _)
IntAcc(s, acc) ==
    IF s = <<>> THEN acc
    ELSE IF IsDigit(Head(s)) THEN IntAcc(Tail(s), 10 * acc + DigitVal(Head(s)))
    ELSE -1

ParseInt(s) == IF s = <<>> THEN -1 ELSE IntAcc(s, 0)

\* s.split(sep) for a separator of one character
RECURSIVE SplitAcc(_, _, _, _)
SplitAcc(s, sep, cur, acc) ==
    IF s = <<>> THEN Append(acc, cur)
    ELSE IF Head(s) = sep THEN SplitAcc(Tail(s), sep, <<>>, Append(acc, cur))
    ELSE SplitAcc(Tail(s), sep, Append(cur, Head(s)), acc)

\* s.split("#")
Split(s) == SplitAcc(s, "#", <<>>, <<>>)

\* ",".join(strs)
RECURSIVE Join(_)
Join(strs) ==
    IF strs = <<>> THEN <<>>
    ELSE IF Len(strs) = 1 THEN strs[1]
    ELSE strs[1] \o <<",">> \o Join(Tail(strs))

\* the concatenation of a sequence of sequences
RECURSIVE Flatten(_)
Flatten(ss) == IF ss = <<>> THEN <<>> ELSE Head(ss) \o Flatten(Tail(ss))

Range(f) == { f[i] : i \in DOMAIN f }

\* f"{uid}#{pos}"
NodeStr(uid, pos) == uid \o <<"#">> \o StrOfNat(pos)

(***************************************************************************)
(* Values of a resource record: a number, a string or a list of frames     *)
(***************************************************************************)
NumV(n) == [t |-> "num", n |-> n, s |-> <<>>, l |-> <<>>]
StrV(s) == [t |-> "str", n |-> 0, s |-> s, l |-> <<>>]
ListV(l) == [t |-> "list", n |-> 0, s |-> <<>>, l |-> l]

\* the value of try_convert when no type of the list converts
None == -1

\* common_kit.try_convert(value, [float]): the number, or None
try_convert(v) ==
    IF v.t = "num" THEN v.n
    ELSE IF v.t = "str" /\ ParseInt(v.s) >= 0 THEN ParseInt(v.s)
    ELSE None

\* convert.to_uid of a frame that is already a string
to_uid(frame) == frame

\* resource[key] of a resource given as its (key, value) items in dict order
Get(resource, key) ==
    resource[CHOOSE i \in 1..Len(resource) : resource[i].key = key].val

Item(k, v) == [key |-> k, val |-> v]

(***************************************************************************)
(* The resources the profiles are drawn from                               *)
(***************************************************************************)
Resources ==
    { \* the spec's end-to-end record
      << Item("amount", NumV(5)), Item("uid", StrV(<<"f">>)),
         Item("trace", ListV(<< <<"m">> >>)) >>,
      \* a non-numeric value ahead of a numeric one, and a uid that ends with
      \* '#' and its own position
      << Item("label", StrV(<<"x">>)), Item("amount", NumV(8)),
         Item("uid", StrV(<<"f", "#", "1">>)), Item("trace", ListV(<< <<"m">> >>)) >>,
      \* a trace of three frames and a second metric
      << Item("uid", StrV(<<"g">>)),
         Item("trace", ListV(<< <<"m">>, <<"f">> >>)), Item("time", NumV(3)) >>,
      \* an empty trace
      << Item("uid", StrV(<<"f">>)), Item("trace", ListV(<<>>)),
         Item("amount", NumV(1)) >>,
      \* a uid that contains '#'
      << Item("uid", StrV(<<"f", "#", "2">>)),
         Item("trace", ListV(<< <<"m">> >>)), Item("amount", NumV(2)) >>,
      \* a uid that is a numeric string, below g one position higher
      << Item("uid", StrV(<<"7">>)),
         Item("trace", ListV(<< <<"m">>, <<"g">> >>)), Item("amount", NumV(1)) >> }

\* the resources of the profiles of successive calls in one process
RunResources ==
    { << Item("amount", NumV(5)), Item("uid", StrV(<<"f">>)),
         Item("trace", ListV(<< <<"m">> >>)) >>,
      << Item("uid", StrV(<<"g">>)),
         Item("trace", ListV(<< <<"m">>, <<"f">> >>)), Item("time", NumV(3)) >> }

CollectorNames == {"kperf", "trace"}

(***************************************************************************)
(* Dictionaries                                                            *)
(***************************************************************************)
EmptyDict == [x \in {} |-> 0]

DictSet(d, k, v) == [x \in DOMAIN d \cup {k} |-> IF x = k THEN v ELSE d[x]]

\* d[k] += v of a defaultdict(float)
DictAdd(d, k, v) == DictSet(d, k, (IF k \in DOMAIN d THEN d[k] ELSE 0) + v)

\* stats.get(k, 0)
DictGet(d, k) == IF k \in DOMAIN d THEN d[k] ELSE 0

(***************************************************************************)
(* State                                                                   *)
(***************************************************************************)
VARIABLES
    trace_is_inclusive, \* Config().trace_is_inclusive of the singleton Config
    KnownStats,         \* Stats.KnownStats, as the order in which the set iterates
    nodes,              \* Graph.nodes: "uid#pos" -> Node
    uid_to_nodes,       \* Graph.uid_to_nodes: items (uid, list of node names) in dict order
    uid_to_id,          \* Graph.uid_to_id
    stats_to_id,        \* Graph.stats_to_id
    heap,               \* the Stats objects; a Link holds the index of its Stats
    pc,                 \* position in generate_sankey_difference
    lhs_name,           \* collector name of the baseline profile
    rhs_name,           \* collector name of the target profile
    baseline_profile,   \* resources of the baseline profile processed so far
    target_profile,     \* resources of the target profile processed so far
    calls,              \* process_edge calls made for the last processed resource
    succ_graph,         \* result of to_jinja_string("succs")
    pred_graph,         \* result of to_jinja_string("preds")
    error,              \* the exception that ended the run, or "none"
    render_stats,       \* the stats argument of template.render
    render_nodes,       \* the nodes argument of template.render
    render_node_map,    \* the node_map argument of template.render
    rerun,              \* TRUE in a call that follows an earlier one of the process
    wait_pc,            \* position in wait_until_server_starts
    max_attempts,       \* its argument max_attempts
    attempts,           \* iterations of its loop begun so far
    responses,          \* what requests.get has answered so far
    sleeps,             \* sleep(wait_time) calls so far
    result,             \* its return value, or "none"
    collect_pc          \* position in collect of the web collector

\* the variables of wait_until_server_starts
waiting == << wait_pc, max_attempts, attempts, responses, sleeps, result,
             collect_pc >>

\* the variables of generate_sankey_difference
sankey == << trace_is_inclusive, KnownStats, nodes, uid_to_nodes, uid_to_id,
             stats_to_id, heap, pc, lhs_name, rhs_name, baseline_profile,
             target_profile, calls, succ_graph, pred_graph, error,
             render_stats, render_nodes, render_node_map, rerun >>

vars == << sankey, waiting >>

\* the arguments of template.render that follow the two graphs
tables == << render_stats, render_nodes, render_node_map >>

(***************************************************************************)
(* Node, Link, Stats                                                       *)
(***************************************************************************)
\* Node(uid): Node.__init__
Node(uid) == [uid |-> uid, succs |-> <<>>, preds |-> <<>>]

\* Link(target, stats), stored under its key of the succs / preds dict
Link(key, target, stats) == [key |-> key, target |-> target, stats |-> stats]

\* Stats(): Stats.__init__
Stats == [baseline |-> EmptyDict, target |-> EmptyDict]

\* key in links, for a succs / preds dict given as its Links in dict order
HasKey(links, key) == \E i \in 1..Len(links) : links[i].key = key

LinkOf(links, key) == links[CHOOSE i \in 1..Len(links) : links[i].key = key]

\* Node.get_links
get_links(node, link_type) == IF link_type = "succs" THEN node.succs ELSE node.preds

\* Node.get_order: int(self.uid.split("#")[1]); -1 stands for the ValueError
get_order(node) == ParseInt(Split(node.uid)[2])

(***************************************************************************)
(* Graph: the operations work on the record g of the graph's fields        *)
(* together with the Stats objects and the registry Stats.KnownStats       *)
(***************************************************************************)
HasUid(items, uid) == \E i \in 1..Len(items) : items[i].uid = uid

\* AppendNode that keeps the nodes of a uid with the newest one first
AppendNode_NodeFirst(items, uid, node) ==
    IF HasUid(items, uid)
    THEN [i \in 1..Len(items) |->
            IF items[i].uid = uid
            THEN [items[i] EXCEPT !.nodes = << node >> \o @]
            ELSE items[i]]
    ELSE Append(items, [uid |-> uid, nodes |-> <<node>>])

\* AppendNode that puts the entry of a new uid ahead of the older ones
AppendNode_NewFirst(items, uid, node) ==
    IF HasUid(items, uid)
    THEN [i \in 1..Len(items) |->
            IF items[i].uid = uid
            THEN [items[i] EXCEPT !.nodes = Append(@, node)]
            ELSE items[i]]
    ELSE << [uid |-> uid, nodes |-> <<node>>] >> \o items

\* self.uid_to_nodes[uid].append(node) of a defaultdict(list)
AppendNode(items, uid, node) ==
    IF HasUid(items, uid)
    THEN [i \in 1..Len(items) |->
            IF items[i].uid = uid
            THEN [items[i] EXCEPT !.nodes = Append(@, node)]
            ELSE items[i]]
    ELSE Append(items, [uid |-> uid, nodes |-> <<node>>])

\* get_node numbering a new uid by len(self.nodes)
get_node_NodeCount(g, node) ==
    LET uid == Split(node)[1]
        g1 == IF uid \notin DOMAIN g.uid_to_id
              THEN [g EXCEPT !.uid_to_id = DictSet(@, uid, Cardinality(DOMAIN g.nodes))]
              ELSE g
    IN  IF node \notin DOMAIN g1.nodes
        THEN [g1 EXCEPT !.nodes = DictSet(@, node, Node(node)),
                        !.uid_to_nodes = AppendNode(@, uid, node)]
        ELSE g1

\* Graph.get_node
get_node(g, node) ==
    LET uid == Split(node)[1]
        g1 == IF uid \notin DOMAIN g.uid_to_id
              THEN [g EXCEPT !.uid_to_id = DictSet(@, uid, Cardinality(DOMAIN @))]
              ELSE g
    IN  IF node \notin DOMAIN g1.nodes
        THEN [g1 EXCEPT !.nodes = DictSet(@, node, Node(node)),
                        !.uid_to_nodes = AppendNode(@, uid, node)]
        ELSE g1

\* Graph.translate_node
translate_node(g, node) ==
    IF \E i \in 1..Len(node) : node[i] = "#"
    THEN StrOfNat(g.uid_to_id[Split(node)[1]])
    ELSE StrOfNat(g.uid_to_id[node])

\* Graph.get_succ_stats: the graph afterwards and the Stats of the link
get_succ_stats(g, src, tgt) ==
    LET g1 == get_node(g, src)
    IN  IF ~HasKey(g1.nodes[src].succs, tgt)
        THEN LET g2 == get_node(g1, tgt)
                 sid == Len(g2.heap) + 1
             IN  [g |-> [g2 EXCEPT !.heap = Append(@, Stats),
                                   !.nodes[src].succs = Append(@, Link(tgt, tgt, sid))],
                  stats |-> sid]
        ELSE [g |-> g1, stats |-> LinkOf(g1.nodes[src].succs, tgt).stats]

\* Graph.get_pred_stats
get_pred_stats(g, src, tgt) ==
    LET g1 == get_node(g, src)
    IN  IF ~HasKey(g1.nodes[src].preds, tgt)
        THEN LET g2 == get_node(g1, tgt)
                 sid == Len(g2.heap) + 1
             IN  [g |-> [g2 EXCEPT !.heap = Append(@, Stats),
                                   !.nodes[src].preds = Append(@, Link(tgt, tgt, sid))],
                  stats |-> sid]
        ELSE [g |-> g1, stats |-> LinkOf(g1.nodes[src].preds, tgt).stats]

\* add_stat that ignores stat_type
add_stat_Baseline(g, sid, stat_type, stat_key, stat_val) ==
    [g EXCEPT !.known = @ \cup {stat_key},
              !.heap[sid].baseline = DictAdd(@, stat_key, stat_val)]

\* Stats.add_stat on the Stats object sid
add_stat(g, sid, stat_type, stat_key, stat_val) ==
    LET g1 == [g EXCEPT !.known = @ \cup {stat_key}]
    IN  IF stat_type = "baseline"
        THEN [g1 EXCEPT !.heap[sid].baseline = DictAdd(@, stat_key, stat_val)]
        ELSE [g1 EXCEPT !.heap[sid].target = DictAdd(@, stat_key, stat_val)]

\* the loop of process_edge leaving at the first value that does not convert
RECURSIVE AddKeys_Break(_, _, _, _, _)
AddKeys_Break(g, profile_type, items, src_stats, tgt_stats) ==
    IF items = <<>> THEN g
    ELSE LET key == Head(items).key
             amount == try_convert(Head(items).val)
         IN  IF amount = None
             THEN g
             ELSE AddKeys_Break(add_stat(add_stat(g, src_stats, profile_type, key, amount),
                                         tgt_stats, profile_type, key, amount),
                                profile_type, Tail(items), src_stats, tgt_stats)

\* the loop of process_edge over the keys of the resource
RECURSIVE AddKeys(_, _, _, _, _)
AddKeys(g, profile_type, items, src_stats, tgt_stats) ==
    IF items = <<>> THEN g
    ELSE LET key == Head(items).key
             amount == try_convert(Head(items).val)
         IN  IF amount = None
             THEN AddKeys(g, profile_type, Tail(items), src_stats, tgt_stats)
             ELSE AddKeys(add_stat(add_stat(g, src_stats, profile_type, key, amount),
                                   tgt_stats, profile_type, key, amount),
                          profile_type, Tail(items), src_stats, tgt_stats)

\* process_edge adding twice to the successor Stats
process_edge_SuccOnly(g, profile_type, resource, src, tgt) ==
    LET s == get_succ_stats(g, src, tgt)
        p == get_pred_stats(s.g, tgt, src)
    IN  AddKeys(p.g, profile_type, resource, s.stats, s.stats)

\* process_edge that gives a target resource to the edges of the graph only
process_edge_KnownEdges(g, profile_type, resource, src, tgt) ==
    IF /\ profile_type = "target"
       /\ ~(src \in DOMAIN g.nodes /\ HasKey(g.nodes[src].succs, tgt))
    THEN g
    ELSE LET s == get_succ_stats(g, src, tgt)
             p == get_pred_stats(s.g, tgt, src)
         IN  AddKeys(p.g, profile_type, resource, s.stats, p.stats)

\* process_edge
process_edge(g, profile_type, resource, src, tgt) ==
    LET s == get_succ_stats(g, src, tgt)
        p == get_pred_stats(s.g, tgt, src)
    IN  AddKeys(p.g, profile_type, resource, s.stats, p.stats)

(***************************************************************************)
(* process_traces                                                          *)
(***************************************************************************)
\* full_trace of a resource
FullTrace(resource) ==
    LET trace == Get(resource, "trace").l
    IN  [i \in 1..Len(trace) |-> to_uid(trace[i])]
        \o <<to_uid(Get(resource, "uid").s)>>

\* process_traces that never reads the mode and links every pair
EdgesOf_EveryPair(resource, inclusive) ==
    LET ft == FullTrace(resource)
        trace_len == Len(ft)
    IN  IF trace_len > 1
        THEN [i \in 1..(trace_len - 1) |->
                [src |-> NodeStr(ft[i], i - 1), tgt |-> NodeStr(ft[i + 1], i)]]
        ELSE <<>>

\* process_traces whose inclusive loop is range(0, trace_len - 2)
EdgesOf_ShortLoop(resource, inclusive) ==
    LET ft == FullTrace(resource)
        trace_len == Len(ft)
    IN  IF trace_len > 1
        THEN IF inclusive
             THEN [i \in 1..(trace_len - 2) |->
                     [src |-> NodeStr(ft[i], i - 1), tgt |-> NodeStr(ft[i + 1], i)]]
             ELSE << [src |-> NodeStr(ft[trace_len - 1], trace_len - 2),
                      tgt |-> NodeStr(ft[trace_len], trace_len - 1)] >>
        ELSE <<>>

\* process_traces whose inclusive loop is range(1, trace_len - 1)
EdgesOf_SkipFirst(resource, inclusive) ==
    LET ft == FullTrace(resource)
        trace_len == Len(ft)
    IN  IF trace_len > 1
        THEN IF inclusive
             THEN [i \in 1..(trace_len - 2) |->
                     [src |-> NodeStr(ft[i + 1], i), tgt |-> NodeStr(ft[i + 2], i + 1)]]
             ELSE << [src |-> NodeStr(ft[trace_len - 1], trace_len - 2),
                      tgt |-> NodeStr(ft[trace_len], trace_len - 1)] >>
        ELSE <<>>

\* the (src, tgt) arguments of the process_edge calls made for one resource,
\* in call order; full_trace[i] of the code is ft[i + 1] here
EdgesOf(resource, inclusive) ==
    LET ft == FullTrace(resource)
        trace_len == Len(ft)
    IN  IF trace_len > 1
        THEN IF inclusive
             THEN [i \in 1..(trace_len - 1) |->
                     [src |-> NodeStr(ft[i], i - 1), tgt |-> NodeStr(ft[i + 1], i)]]
             ELSE << [src |-> NodeStr(ft[trace_len - 1], trace_len - 2),
                      tgt |-> NodeStr(ft[trace_len], trace_len - 1)] >>
        ELSE <<>>

RECURSIVE ProcessEdges(_, _, _, _)
ProcessEdges(g, profile_type, resource, edges) ==
    IF edges = <<>> THEN g
    ELSE ProcessEdges(process_edge(g, profile_type, resource, Head(edges).src, Head(edges).tgt),
                      profile_type, resource, Tail(edges))

\* the body of the loop that also registers the node of the last frame
process_resource_LeafNode(g, profile_type, resource, inclusive) ==
    get_node(ProcessEdges(g, profile_type, resource, EdgesOf(resource, inclusive)),
             NodeStr(FullTrace(resource)[Len(FullTrace(resource))],
                     Len(FullTrace(resource)) - 1))

\* the body of the loop of process_traces for one resource
process_resource(g, profile_type, resource, inclusive) ==
    ProcessEdges(g, profile_type, resource, EdgesOf(resource, inclusive))

(***************************************************************************)
(* Stats.KnownStats is a Python set: it iterates in an order that depends  *)
(* on the hashes of its strings, which differ from process to process.     *)
(* Adding names leaves the relative order of the names already there (the  *)
(* table is not resized for the few names of the model) and puts each new  *)
(* name anywhere.                                                          *)
(***************************************************************************)
InsertAt(seq, e, i) == SubSeq(seq, 1, i) \o <<e>> \o SubSeq(seq, i + 1, Len(seq))

RECURSIVE Orders(_, _)
Orders(seq, new) ==
    IF new = {} THEN {seq}
    ELSE LET e == CHOOSE x \in new : TRUE
         IN  UNION { Orders(InsertAt(seq, e, i), new \ {e}) : i \in 0..Len(seq) }

(***************************************************************************)
(* Encoding                                                                *)
(***************************************************************************)
\* common_kit.compact_convert_num_to_str(number, 2) of a whole number
compact_convert_num_to_str(number) == StrOfNat(number)

\* to_array over the metrics of this Stats only
to_array_Observed(stats, stat_type, known) ==
    LET d == IF stat_type = "baseline" THEN stats.baseline ELSE stats.target
        own == SelectSeq(known, LAMBDA stat : stat \in DOMAIN d)
    IN  [i \in 1..Len(own) |-> compact_convert_num_to_str(d[own[i]])]

\* Stats.to_array
to_array(stats, stat_type, known) ==
    LET d == IF stat_type = "baseline" THEN stats.baseline ELSE stats.target
    IN  [i \in 1..Len(known) |-> compact_convert_num_to_str(DictGet(d, known[i]))]

\* f"[{','.join(link.stats.to_array('baseline') + link.stats.to_array('target'))}]"
StatsString(stats, known) ==
    <<"[">> \o Join(to_array(stats, "baseline", known) \o to_array(stats, "target", known))
    \o <<"]">>

\* translate_stats that numbers the vectors from 1
translate_stats_FromOne(table, stats) ==
    IF stats \notin DOMAIN table
    THEN DictSet(table, stats, Cardinality(DOMAIN table) + 1)
    ELSE table

\* translate_stats that numbers the vector anew at every call
translate_stats_Renumber(table, stats) ==
    DictSet(table, stats, Cardinality(DOMAIN table))

\* Graph.translate_stats: the table afterwards
translate_stats(table, stats) ==
    IF stats \notin DOMAIN table
    THEN DictSet(table, stats, Cardinality(DOMAIN table))
    ELSE table

RECURSIVE TranslateAll(_, _)
TranslateAll(table, strs) ==
    IF strs = <<>> THEN table
    ELSE TranslateAll(translate_stats(table, Head(strs)), Tail(strs))

\* the (node, link) pairs in the order in which to_jinja_string visits them
Visited(g, link_type) ==
    Flatten([i \in 1..Len(g.uid_to_nodes) |->
        Flatten([j \in 1..Len(g.uid_to_nodes[i].nodes) |->
            LET node == g.nodes[g.uid_to_nodes[i].nodes[j]]
                links == get_links(node, link_type)
            IN  [k \in 1..Len(links) |-> [node |-> node, link |-> links[k]]]])])

\* the two assertions of to_jinja_string on one visited link
Adjacent(g, v, link_type) ==
    /\ link_type = "preds"
       \/ get_order(v.node) + 1 = get_order(g.nodes[v.link.target])
    /\ link_type = "succs"
       \/ get_order(v.node) = get_order(g.nodes[v.link.target]) + 1

\* the number of links visited before the first failing assertion
Passed(g, visited, link_type) ==
    IF \A i \in 1..Len(visited) : Adjacent(g, visited[i], link_type)
    THEN Len(visited)
    ELSE (CHOOSE i \in 1..Len(visited) :
            /\ ~Adjacent(g, visited[i], link_type)
            /\ \A j \in 1..(i - 1) : Adjacent(g, visited[j], link_type)) - 1

\* Graph.to_jinja_string: stats_to_id afterwards, the exception raised and the
\* output, as the items of the nested mapping in the order they are written
to_jinja_string(g, table, known, link_type) ==
    LET visited == Visited(g, link_type)
        passed == Passed(g, visited, link_type)
        strs == [i \in 1..passed |-> StatsString(g.heap[visited[i].link.stats], known)]
        table1 == TranslateAll(table, strs)
        bad_order == \E n \in DOMAIN g.nodes : get_order(g.nodes[n]) < 0
        output ==
            [i \in 1..Len(g.uid_to_nodes) |->
                [key |-> translate_node(g, g.uid_to_nodes[i].uid),
                 val |-> [j \in 1..Len(g.uid_to_nodes[i].nodes) |->
                    LET node == g.nodes[g.uid_to_nodes[i].nodes[j]]
                        links == get_links(node, link_type)
                    IN  [key |-> StrOfNat(get_order(node)),
                         val |-> [k \in 1..Len(links) |->
                            [key |-> translate_node(g, g.nodes[links[k].target].uid),
                             val |-> StrOfNat(table1[StatsString(g.heap[links[k].stats],
                                                                 known)])]]]]]]
    IN  IF bad_order
        THEN [stats_to_id |-> table, error |-> "ValueError", output |-> <<>>]
        ELSE IF passed < Len(visited)
        THEN [stats_to_id |-> table1, error |-> "AssertionError", output |-> <<>>]
        ELSE [stats_to_id |-> table1, error |-> "none", output |-> output]

(***************************************************************************)
(* generate_sankey_difference                                              *)
(***************************************************************************)
TheGraph ==
    [nodes |-> nodes, uid_to_nodes |-> uid_to_nodes, uid_to_id |-> uid_to_id,
     heap |-> heap, known |-> Range(KnownStats)]

Init ==
    /\ trace_is_inclusive = FALSE
    /\ KnownStats = <<>>
    /\ nodes = EmptyDict
    /\ uid_to_nodes = <<>>
    /\ uid_to_id = EmptyDict
    /\ stats_to_id = EmptyDict
    /\ heap = <<>>
    /\ pc = "start"
    /\ lhs_name = "none"
    /\ rhs_name = "none"
    /\ baseline_profile = <<>>
    /\ target_profile = <<>>
    /\ calls = <<>>
    /\ succ_graph = <<>>
    /\ pred_graph = <<>>
    /\ error = "none"
    /\ render_stats = <<>>
    /\ render_nodes = <<>>
    /\ render_node_map = <<>>
    /\ rerun = FALSE
    /\ wait_pc = "idle"
    /\ max_attempts = 0
    /\ attempts = 0
    /\ responses = <<>>
    /\ sleeps = 0
    /\ result = "none"
    /\ collect_pc = "none"

\* the call that sets the inclusive mode when either profile comes from kperf
Call_EitherProfile(collectors) ==
    /\ pc = "start"
    /\ \E c \in collectors :
        /\ lhs_name' = c[1]
        /\ rhs_name' = c[2]
        /\ trace_is_inclusive' = IF c[1] = "kperf" \/ c[2] = "kperf"
                                 THEN TRUE ELSE trace_is_inclusive
    /\ pc' = "baseline"
    /\ UNCHANGED << waiting, tables, rerun, KnownStats, nodes, uid_to_nodes, uid_to_id,
                    stats_to_id, heap, baseline_profile, target_profile, calls,
                    succ_graph, pred_graph, error >>

\* the call with its two profiles, whose collector names are one of the given
\* pairs, the choice of the mode and Graph()
Call(collectors) ==
    /\ pc = "start"
    /\ \E c \in collectors :
        /\ lhs_name' = c[1]
        /\ rhs_name' = c[2]
        /\ trace_is_inclusive' = IF c[1] = "kperf" THEN TRUE ELSE trace_is_inclusive
    /\ pc' = "baseline"
    /\ UNCHANGED << waiting, tables, rerun, KnownStats, nodes, uid_to_nodes, uid_to_id, stats_to_id, heap,
                    baseline_profile, target_profile, calls, succ_graph, pred_graph,
                    error >>

\* both profiles come from the same collector
SameCollector == { <<c, c>> : c \in CollectorNames }

Start == Call(SameCollector)

\* one iteration of the loop of process_traces
ProcessResource(profile_type, resource) ==
    \E g \in {process_resource(TheGraph, profile_type, resource, trace_is_inclusive)} :
        /\ nodes' = g.nodes
        /\ uid_to_nodes' = g.uid_to_nodes
        /\ uid_to_id' = g.uid_to_id
        /\ heap' = g.heap
        /\ KnownStats' \in Orders(KnownStats, g.known \ Range(KnownStats))
        /\ calls' = [i \in 1..Len(EdgesOf(resource, trace_is_inclusive)) |->
                        [profile_type |-> profile_type, resource |-> resource,
                         src |-> EdgesOf(resource, trace_is_inclusive)[i].src,
                         tgt |-> EdgesOf(resource, trace_is_inclusive)[i].tgt]]

\* process_traces(lhs_profile, "baseline", graph), one resource
ProcessBaselineOf(resources) ==
    /\ pc = "baseline"
    /\ Len(baseline_profile) + Len(target_profile) < MaxRecords
    /\ \E resource \in resources :
        /\ ProcessResource("baseline", resource)
        /\ baseline_profile' = Append(baseline_profile, resource)
    /\ UNCHANGED << waiting, tables, rerun, trace_is_inclusive, stats_to_id, pc, lhs_name, rhs_name,
                    target_profile, succ_graph, pred_graph, error >>

ProcessBaseline == ProcessBaselineOf(Resources)

\* the baseline profile has no more resources
EndBaseline ==
    /\ pc = "baseline"
    /\ pc' = "target"
    /\ calls' = <<>>
    /\ UNCHANGED << waiting, tables, rerun, trace_is_inclusive, KnownStats, nodes, uid_to_nodes, uid_to_id,
                    stats_to_id, heap, lhs_name, rhs_name, baseline_profile,
                    target_profile, succ_graph, pred_graph, error >>

\* process_traces(rhs_profile, "target", graph), one resource
ProcessTargetOf(resources) ==
    /\ pc = "target"
    /\ Len(baseline_profile) + Len(target_profile) < MaxRecords
    /\ \E resource \in resources :
        /\ ProcessResource("target", resource)
        /\ target_profile' = Append(target_profile, resource)
    /\ UNCHANGED << waiting, tables, rerun, trace_is_inclusive, stats_to_id, pc, lhs_name, rhs_name,
                    baseline_profile, succ_graph, pred_graph, error >>

ProcessTarget == ProcessTargetOf(Resources)

\* the target profile has no more resources
EndTarget ==
    /\ pc = "target"
    /\ pc' = "succs"
    /\ calls' = <<>>
    /\ UNCHANGED << waiting, tables, rerun, trace_is_inclusive, KnownStats, nodes, uid_to_nodes, uid_to_id,
                    stats_to_id, heap, lhs_name, rhs_name, baseline_profile,
                    target_profile, succ_graph, pred_graph, error >>

\* succ_graph=graph.to_jinja_string("succs")
EncodeSuccs ==
    /\ pc = "succs"
    /\ \E r \in {to_jinja_string(TheGraph, stats_to_id, KnownStats, "succs")} :
           /\ stats_to_id' = r.stats_to_id
           /\ succ_graph' = r.output
           /\ error' = r.error
           /\ pc' = IF r.error = "none" THEN "preds" ELSE "failed"
    /\ UNCHANGED << waiting, tables, rerun, trace_is_inclusive, KnownStats, nodes, uid_to_nodes, uid_to_id,
                    heap, lhs_name, rhs_name, baseline_profile, target_profile,
                    calls, pred_graph >>

\* pred_graph=graph.to_jinja_string("preds")
EncodePreds ==
    /\ pc = "preds"
    /\ \E r \in {to_jinja_string(TheGraph, stats_to_id, KnownStats, "preds")} :
           /\ stats_to_id' = r.stats_to_id
           /\ pred_graph' = r.output
           /\ error' = r.error
           /\ pc' = IF r.error = "none" THEN "done" ELSE "failed"
    /\ UNCHANGED << waiting, tables, rerun, trace_is_inclusive, KnownStats, nodes, uid_to_nodes, uid_to_id,
                    heap, lhs_name, rhs_name, baseline_profile, target_profile,
                    calls, succ_graph >>

\* sorted(items, key=...) of items [k |-> key, v |-> value]: a stable sort
RECURSIVE SortedByKey(_)
SortedByKey(items) ==
    IF items = <<>> THEN <<>>
    ELSE LET n == Len(items)
             front == SortedByKey(SubSeq(items, 1, n - 1))
             x == items[n]
             \* x goes behind every item whose key is not greater
             at == Cardinality({ i \in 1..Len(front) : front[i].k <= x.k })
         IN  SubSeq(front, 1, at) \o << x >> \o SubSeq(front, at + 1, Len(front))

\* list(map(itemgetter(0), sorted(list(d.items()), key=itemgetter(1)))) of a dict
\* whose items are given in insertion order
KeysByValue(items) ==
    LET sorted == SortedByKey(items)
    IN  [i \in 1..Len(sorted) |-> sorted[i].v]

\* the items of stats_to_id; the order of insertion is the order of the ids
RECURSIVE StatsItemsOf(_, _)
StatsItemsOf(table, keys) ==
    IF keys = {} THEN <<>>
    ELSE LET first == CHOOSE s \in keys : \A t \in keys : table[s] <= table[t]
         IN  << [k |-> table[first], v |-> first] >>
             \o StatsItemsOf(table, keys \ {first})

StatsItems(table) == StatsItemsOf(table, DOMAIN table)

\* the stats argument: the stats vectors in the order of their ids
StatsTable(table) == KeysByValue(StatsItems(table))

\* the items of uid_to_id, in the order of insertion
UidItems(g) ==
    [i \in 1..Len(g.uid_to_nodes) |->
        [k |-> g.uid_to_id[g.uid_to_nodes[i].uid], v |-> g.uid_to_nodes[i].uid]]

\* the node_map argument: for every uid in the order of the ids, the sorted
\* orders of its nodes
NodeMap(g) ==
    LET lists == KeysByValue([i \in 1..Len(g.uid_to_nodes) |->
                    [k |-> g.uid_to_id[g.uid_to_nodes[i].uid],
                     v |-> g.uid_to_nodes[i].nodes]])
    IN  [i \in 1..Len(lists) |->
            KeysByValue([j \in 1..Len(lists[i]) |->
                [k |-> get_order(g.nodes[lists[i][j]]),
                 v |-> get_order(g.nodes[lists[i][j]])]])]

\* the arguments of template.render that follow pred_graph
Render ==
    /\ pc = "done"
    /\ render_stats' = << "[" >> \o Join(StatsTable(stats_to_id)) \o << "]" >>
    /\ render_nodes' = KeysByValue(UidItems(TheGraph))
    /\ render_node_map' = NodeMap(TheGraph)
    /\ pc' = "rendered"
    /\ UNCHANGED << waiting, rerun, trace_is_inclusive, KnownStats, nodes, uid_to_nodes,
                    uid_to_id, stats_to_id, heap, lhs_name, rhs_name,
                    baseline_profile, target_profile, calls, succ_graph,
                    pred_graph, error >>

Next ==
    \/ Start
    \/ ProcessBaseline
    \/ EndBaseline
    \/ ProcessTarget
    \/ EndTarget
    \/ EncodeSuccs
    \/ EncodePreds
    \/ Render

Spec == Init /\ [][Next]_vars

\* the collector names of the two profiles are independent
AnyCollectors == CollectorNames \X CollectorNames

\* a further call that starts with an empty registry of metrics
NewRun_ClearedRegistry ==
    /\ pc \in {"rendered", "failed"}
    /\ rerun = FALSE
    /\ rerun' = TRUE
    /\ pc' = "start"
    /\ nodes' = EmptyDict
    /\ uid_to_nodes' = <<>>
    /\ uid_to_id' = EmptyDict
    /\ stats_to_id' = EmptyDict
    /\ heap' = <<>>
    /\ lhs_name' = "none"
    /\ rhs_name' = "none"
    /\ baseline_profile' = <<>>
    /\ target_profile' = <<>>
    /\ calls' = <<>>
    /\ succ_graph' = <<>>
    /\ pred_graph' = <<>>
    /\ error' = "none"
    /\ render_stats' = <<>>
    /\ render_nodes' = <<>>
    /\ render_node_map' = <<>>
    /\ KnownStats' = <<>>
    /\ UNCHANGED << waiting, trace_is_inclusive >>

\* generate_sankey_difference returned or raised, and the process calls it once
\* more: a new Graph, while Config() and Stats.KnownStats are those of the process
NewRun ==
    /\ pc \in {"rendered", "failed"}
    /\ rerun = FALSE
    /\ rerun' = TRUE
    /\ pc' = "start"
    /\ nodes' = EmptyDict
    /\ uid_to_nodes' = <<>>
    /\ uid_to_id' = EmptyDict
    /\ stats_to_id' = EmptyDict
    /\ heap' = <<>>
    /\ lhs_name' = "none"
    /\ rhs_name' = "none"
    /\ baseline_profile' = <<>>
    /\ target_profile' = <<>>
    /\ calls' = <<>>
    /\ succ_graph' = <<>>
    /\ pred_graph' = <<>>
    /\ error' = "none"
    /\ render_stats' = <<>>
    /\ render_nodes' = <<>>
    /\ render_node_map' = <<>>
    /\ UNCHANGED << waiting, trace_is_inclusive, KnownStats >>

NextRuns ==
    \/ Call(AnyCollectors)
    \/ ProcessBaselineOf(RunResources)
    \/ EndBaseline
    \/ ProcessTargetOf(RunResources)
    \/ EndTarget
    \/ EncodeSuccs
    \/ EncodePreds
    \/ Render
    \/ NewRun

SpecRuns == Init /\ [][NextRuns]_vars

(***************************************************************************)
(* Reading the graph                                                       *)
(***************************************************************************)
Roles == {"baseline", "target"}

\* every key of every resource
AllKeys == UNION { { r[i].key : i \in DOMAIN r } : r \in Resources }

HasItem(resource, key) == \E i \in 1..Len(resource) : resource[i].key = key

RoleDict(stats, role) == IF role = "baseline" THEN stats.baseline ELSE stats.target

HasSucc(ns, src, tgt) == src \in DOMAIN ns /\ HasKey(ns[src].succs, tgt)

HasPred(ns, tgt, src) == tgt \in DOMAIN ns /\ HasKey(ns[tgt].preds, src)

\* the sum stored for (role, key) on the successor link src -> tgt, 0 without one
SuccSum(ns, hp, src, tgt, role, key) ==
    IF HasSucc(ns, src, tgt)
    THEN DictGet(RoleDict(hp[LinkOf(ns[src].succs, tgt).stats], role), key)
    ELSE 0

\* the sum stored for (role, key) on the predecessor link of tgt back to src
PredSum(ns, hp, tgt, src, role, key) ==
    IF HasPred(ns, tgt, src)
    THEN DictGet(RoleDict(hp[LinkOf(ns[tgt].preds, src).stats], role), key)
    ELSE 0

\* the Stats objects of the two links of the edge src -> tgt
EdgeStats(ns, src, tgt) ==
    (IF HasSucc(ns, src, tgt) THEN {LinkOf(ns[src].succs, tgt).stats} ELSE {})
    \cup (IF HasPred(ns, tgt, src) THEN {LinkOf(ns[tgt].preds, src).stats} ELSE {})

\* a step that processes one resource, its role and its resource
IsProcessStep ==
    \/ Len(baseline_profile') = Len(baseline_profile) + 1
    \/ Len(target_profile') = Len(target_profile) + 1

StepRole ==
    IF Len(baseline_profile') = Len(baseline_profile) + 1 THEN "baseline" ELSE "target"

StepResource ==
    IF Len(baseline_profile') = Len(baseline_profile) + 1
    THEN baseline_profile'[Len(baseline_profile')]
    ELSE target_profile'[Len(target_profile')]

Profile(role) == IF role = "baseline" THEN baseline_profile ELSE target_profile

(***************************************************************************)
(* C1: in exclusive mode a resource whose full trace has n >= 2 frames     *)
(* makes exactly one process_edge call, from fullTrace[n-2]#(n-2) to       *)
(* fullTrace[n-1]#(n-1) with the whole record, and no node and no Stats    *)
(* of any other position is created or changed.                            *)
(***************************************************************************)
C1_ExclusiveStep ==
    LET r == StepResource
        ft == FullTrace(r)
        n == Len(ft)
        src == ft[n - 1] \o <<"#">> \o StrOfNat(n - 2)
        tgt == ft[n] \o <<"#">> \o StrOfNat(n - 1)
    IN  (IsProcessStep /\ ~trace_is_inclusive /\ n >= 2) =>
            /\ calls' = << [profile_type |-> StepRole, resource |-> r,
                            src |-> src, tgt |-> tgt] >>
            /\ HasSucc(nodes', src, tgt) /\ HasPred(nodes', tgt, src)
            /\ DOMAIN nodes' = DOMAIN nodes \cup {src, tgt}
            /\ \A k \in DOMAIN nodes : k \notin {src, tgt} => nodes'[k] = nodes[k]
            /\ \A k \in DOMAIN nodes' \ DOMAIN nodes :
                    Len(nodes'[k].succs) + Len(nodes'[k].preds) = 1
            /\ \A i \in 1..Len(heap) :
                    i \notin EdgeStats(nodes', src, tgt) => heap'[i] = heap[i]
            /\ \A i \in (Len(heap) + 1)..Len(heap') : i \in EdgeStats(nodes', src, tgt)

C1_ExclusiveLastEdgeOnly == [][C1_ExclusiveStep]_vars

\* an exclusive run has just processed a resource of three frames after another one
C1_Witness ==
    /\ ~trace_is_inclusive
    /\ Len(calls) = 1
    /\ Len(FullTrace(calls[1].resource)) = 3
    /\ Len(baseline_profile) + Len(target_profile) >= 2

(***************************************************************************)
(* C2: in inclusive mode a resource whose full trace has n >= 2 frames     *)
(* makes exactly n-1 process_edge calls, from fullTrace[i]#i to            *)
(* fullTrace[i+1]#(i+1) for i = 0..n-2 in this order, and every one of     *)
(* these edges receives every numeric value of the record, on its          *)
(* successor link and on its predecessor link.                             *)
(***************************************************************************)
C2_InclusiveStep ==
    LET r == StepResource
        ft == FullTrace(r)
        n == Len(ft)
        src(i) == ft[i + 1] \o <<"#">> \o StrOfNat(i)
        tgt(i) == ft[i + 2] \o <<"#">> \o StrOfNat(i + 1)
    IN  (IsProcessStep /\ trace_is_inclusive /\ n >= 2) =>
            /\ Len(calls') = n - 1
            /\ \A i \in 0..(n - 2) :
                /\ calls'[i + 1] = [profile_type |-> StepRole, resource |-> r,
                                    src |-> src(i), tgt |-> tgt(i)]
                /\ HasSucc(nodes', src(i), tgt(i)) /\ HasPred(nodes', tgt(i), src(i))
                /\ \A k \in 1..Len(r) :
                    try_convert(r[k].val) # None =>
                        /\ SuccSum(nodes', heap', src(i), tgt(i), StepRole, r[k].key)
                           = SuccSum(nodes, heap, src(i), tgt(i), StepRole, r[k].key)
                             + try_convert(r[k].val)
                        /\ PredSum(nodes', heap', tgt(i), src(i), StepRole, r[k].key)
                           = PredSum(nodes, heap, tgt(i), src(i), StepRole, r[k].key)
                             + try_convert(r[k].val)

C2_InclusiveEveryEdge == [][C2_InclusiveStep]_vars

\* an inclusive run has just processed a resource of three frames after another one
C2_Witness ==
    /\ trace_is_inclusive
    /\ Len(calls) = 2
    /\ Len(baseline_profile) + Len(target_profile) >= 2

(***************************************************************************)
(* C3: on every link, for every role and every key, the stored sum is the  *)
(* sum of the converted values of exactly those resources of that role's   *)
(* profile that induce the edge; the other role's resources add nothing.   *)
(***************************************************************************)
\* what each resource of a profile contributes: its edges and, per key, its
\* converted value (0 for a key it has not or that does not convert)
Contributions(profile, inclusive) ==
    [i \in 1..Len(profile) |->
        [edges |-> Range(EdgesOf(profile[i], inclusive)),
         vals |-> [key \in AllKeys |->
                    IF /\ HasItem(profile[i], key)
                       /\ try_convert(Get(profile[i], key)) # None
                    THEN try_convert(Get(profile[i], key))
                    ELSE 0]]]

\* the contributions that induce the edge e
Inducing(contributions, e) == SelectSeq(contributions, LAMBDA c : e \in c.edges)

RECURSIVE SumOver(_, _)
SumOver(contributions, key) ==
    IF contributions = <<>> THEN 0
    ELSE Head(contributions).vals[key] + SumOver(Tail(contributions), key)

\* the sums of one role in one Stats are those of the given contributions
SumsAre(sums, contributions) ==
    \A key \in AllKeys : DictGet(sums, key) = SumOver(contributions, key)

C3_Sums ==
    \A cb \in {[role \in Roles |-> Contributions(Profile(role), trace_is_inclusive)]} :
        \A n \in DOMAIN nodes, role \in Roles :
            /\ \A i \in 1..Len(nodes[n].succs) :
                \A sel \in {Inducing(cb[role], [src |-> n, tgt |-> nodes[n].succs[i].key])} :
                    SumsAre(RoleDict(heap[nodes[n].succs[i].stats], role), sel)
            /\ \A i \in 1..Len(nodes[n].preds) :
                \A sel \in {Inducing(cb[role], [src |-> nodes[n].preds[i].key, tgt |-> n])} :
                    SumsAre(RoleDict(heap[nodes[n].preds[i].stats], role), sel)

C3_SumsPerRole == []C3_Sums

\* one edge has accumulated the same baseline value twice and one target value
C3_Witness ==
    /\ Len(baseline_profile) = 2
    /\ baseline_profile[1] = baseline_profile[2]
    /\ \E n \in DOMAIN nodes : \E i \in 1..Len(nodes[n].succs) :
        /\ SuccSum(nodes, heap, n, nodes[n].succs[i].key, "baseline", "amount") = 10
        /\ SuccSum(nodes, heap, n, nodes[n].succs[i].key, "target", "amount") = 5

(***************************************************************************)
(* C4: the predecessor relation mirrors the successor relation: tgt is a   *)
(* key of nodes[src].succs iff src is a key of nodes[tgt].preds, the two   *)
(* links hold different Stats objects, and the two Stats hold the same     *)
(* baseline sums and the same target sums.                                 *)
(***************************************************************************)
C4_Mirror ==
    /\ \A s \in DOMAIN nodes : \A i \in 1..Len(nodes[s].succs) :
        LET t == nodes[s].succs[i].key
        IN  /\ HasPred(nodes, t, s)
            /\ nodes[s].succs[i].stats # LinkOf(nodes[t].preds, s).stats
            /\ heap[nodes[s].succs[i].stats] = heap[LinkOf(nodes[t].preds, s).stats]
    /\ \A t \in DOMAIN nodes : \A i \in 1..Len(nodes[t].preds) :
        HasSucc(nodes, nodes[t].preds[i].key, t)

\* an edge seen in both profiles, next to another edge
C4_Witness ==
    \E s \in DOMAIN nodes : \E i \in 1..Len(nodes[s].succs) :
        /\ DOMAIN heap[nodes[s].succs[i].stats].baseline # {}
        /\ DOMAIN heap[nodes[s].succs[i].stats].target # {}
        /\ Len(heap) >= 4

(***************************************************************************)
(* C5: no adjacency assertion of to_jinja_string fails for a graph that    *)
(* process_traces has populated: every successor link goes from a position *)
(* p to p + 1 and every predecessor link from p to p - 1.                  *)
(***************************************************************************)
C5_AdjacencyNeverFails == error # "AssertionError"

(***************************************************************************)
(* C6: two different uids of processed frames never get the same compact   *)
(* id, and one uid gets the same id wherever it occurs.                    *)
(***************************************************************************)
\* the frames (uid, position) of a resource that reach process_edge
FramesOf(resource, inclusive) ==
    LET ft == FullTrace(resource)
        n == Len(ft)
    IN  IF n < 2 THEN {}
        ELSE { <<ft[i], i - 1>> : i \in (IF inclusive THEN 1..n ELSE {n - 1, n}) }

ProcessedFrames ==
    UNION { FramesOf(baseline_profile[i], trace_is_inclusive) :
                i \in 1..Len(baseline_profile) }
    \cup UNION { FramesOf(target_profile[i], trace_is_inclusive) :
                i \in 1..Len(target_profile) }

C6_DistinctUidsDistinctIds ==
    \A frames \in {ProcessedFrames} : \A a \in frames, b \in frames :
        (a[1] = b[1]) <=>
            (translate_node(TheGraph, NodeStr(a[1], a[2]))
             = translate_node(TheGraph, NodeStr(b[1], b[2])))

(***************************************************************************)
(* C7: the values of uid_to_id are exactly 0..|uid_to_id|-1; a uid keeps   *)
(* its id for good; and the uids a step adds are numbered in the order in  *)
(* which get_node first receives them.                                     *)
(***************************************************************************)
\* the uids that get_node extracts, in the order of its first calls for them
GetNodeUids(cs) ==
    Flatten([i \in 1..Len(cs) |-> << Split(cs[i].src)[1], Split(cs[i].tgt)[1] >>])

FirstIndex(seq, e) ==
    CHOOSE i \in 1..Len(seq) : seq[i] = e /\ \A j \in 1..(i - 1) : seq[j] # e

C7_IdsDense ==
    { uid_to_id[u] : u \in DOMAIN uid_to_id } = 0..(Cardinality(DOMAIN uid_to_id) - 1)

C7_Step ==
    /\ \A u \in DOMAIN uid_to_id :
        u \in DOMAIN uid_to_id' /\ uid_to_id'[u] = uid_to_id[u]
    /\ \A new \in {DOMAIN uid_to_id' \ DOMAIN uid_to_id} :
        new # {} =>
            /\ IsProcessStep
            /\ \A seq \in {GetNodeUids(calls')} :
                /\ new \subseteq Range(seq)
                /\ \A p \in new, q \in new :
                    FirstIndex(seq, p) < FirstIndex(seq, q)
                        => uid_to_id'[p] < uid_to_id'[q]

C7_IdsInFirstSeenOrder == []C7_IdsDense /\ [][C7_Step]_vars

\* one step has numbered two new uids after an earlier one, and the graph is encoded
C7_Witness ==
    /\ pc = "done"
    /\ Cardinality(DOMAIN uid_to_id) >= 3
    /\ Len(baseline_profile) + Len(target_profile) = 2

(***************************************************************************)
(* C8: once both profiles are processed, the vector encoded for every link *)
(* has exactly 2 * |Stats.KnownStats| entries, with 0 in the slot of every *)
(* metric the link has not observed for that role; so has every vector     *)
(* that the encoding has entered in stats_to_id.                           *)
(***************************************************************************)
\* the entries of a string "[e1,e2,...]"
Entries(str) ==
    IF Len(str) = 2 THEN <<>>
    ELSE SplitAcc(SubSeq(str, 2, Len(str) - 1), ",", <<>>, <<>>)

C8_VectorOf(stats) ==
    \A vec \in {Entries(StatsString(stats, KnownStats))} :
        /\ Len(vec) = 2 * Len(KnownStats)
        /\ \A j \in 1..Len(KnownStats) :
            /\ KnownStats[j] \notin DOMAIN stats.baseline => vec[j] = <<"0">>
            /\ KnownStats[j] \notin DOMAIN stats.target
                    => vec[Len(KnownStats) + j] = <<"0">>

C8_VectorLength ==
    pc \in {"succs", "preds", "done", "failed"} =>
        /\ \A n \in DOMAIN nodes :
            /\ \A i \in 1..Len(nodes[n].succs) : C8_VectorOf(heap[nodes[n].succs[i].stats])
            /\ \A i \in 1..Len(nodes[n].preds) : C8_VectorOf(heap[nodes[n].preds[i].stats])
        /\ \A str \in DOMAIN stats_to_id : Len(Entries(str)) = 2 * Len(KnownStats)

\* two metrics are known, a link has observed only one of them, both encodings ran
C8_Witness ==
    /\ pc = "done"
    /\ Len(KnownStats) = 2
    /\ Cardinality(DOMAIN stats_to_id) >= 2
    /\ \E i \in 1..Len(heap) : Cardinality(DOMAIN heap[i].baseline) = 1

(***************************************************************************)
(* C9: a key whose value does not convert is skipped for that key only: it *)
(* enters no Stats and not the registry, every key of the same resource    *)
(* that converts is added on the successor and on the predecessor Stats of *)
(* every edge of the resource, and the loop over the resources goes on.    *)
(***************************************************************************)
C9_Step ==
    IsProcessStep =>
        /\ pc' = pc /\ error' = "none"
        /\ \A r \in {StepResource} : \A k \in 1..Len(r) :
            IF try_convert(r[k].val) = None
            THEN /\ r[k].key \in Range(KnownStats') => r[k].key \in Range(KnownStats)
                 /\ \A i \in 1..Len(heap') : \A role \in Roles :
                        r[k].key \in DOMAIN RoleDict(heap'[i], role)
                            => /\ i <= Len(heap)
                               /\ r[k].key \in DOMAIN RoleDict(heap[i], role)
                               /\ RoleDict(heap'[i], role)[r[k].key]
                                  = RoleDict(heap[i], role)[r[k].key]
            ELSE \A c \in 1..Len(calls') :
                    /\ SuccSum(nodes', heap', calls'[c].src, calls'[c].tgt, StepRole, r[k].key)
                       = SuccSum(nodes, heap, calls'[c].src, calls'[c].tgt, StepRole, r[k].key)
                         + try_convert(r[k].val)
                    /\ PredSum(nodes', heap', calls'[c].tgt, calls'[c].src, StepRole, r[k].key)
                       = PredSum(nodes, heap, calls'[c].tgt, calls'[c].src, StepRole, r[k].key)
                         + try_convert(r[k].val)

C9_NonNumericSkippedPerKey == [][C9_Step]_vars

\* a resource with a non-numeric label has added its amount, and a later
\* resource was processed after it
C9_Witness ==
    /\ Len(baseline_profile) = 2
    /\ HasItem(baseline_profile[1], "label")
    /\ "label" \notin Range(KnownStats)
    /\ \E i \in 1..Len(heap) : DictGet(heap[i].baseline, "amount") > 8

(***************************************************************************)
(* C10: the keys uid and trace of a resource are no metrics: they never    *)
(* enter Stats.KnownStats and never get a sum in any Stats.                *)
(***************************************************************************)
C10_UidAndTraceNoMetrics ==
    \A key \in {"uid", "trace"} :
        /\ key \notin Range(KnownStats)
        /\ \A i \in 1..Len(heap) :
            key \notin DOMAIN heap[i].baseline \cup DOMAIN heap[i].target

(***************************************************************************)
(* C11: encoding is idempotent: to_jinja_string called again with the same *)
(* link type, with no accumulation in between, returns what it returned    *)
(* before, also when the other link type was encoded in between and        *)
(* although the earlier calls have added entries to stats_to_id.           *)
(***************************************************************************)
C11_Reencoded ==
    /\ pc \in {"preds", "done"} =>
        \A r \in {to_jinja_string(TheGraph, stats_to_id, KnownStats, "succs")} :
            /\ r.error = "none"
            /\ r.output = succ_graph
    /\ pc = "done" =>
        \A r \in {to_jinja_string(TheGraph, stats_to_id, KnownStats, "preds")} :
            /\ r.error = "none"
            /\ r.output = pred_graph

C11_ReencodingIdempotent == []C11_Reencoded

\* both link types are encoded, with two different stats vectors in the table
C11_Witness ==
    /\ pc = "done"
    /\ Cardinality(DOMAIN stats_to_id) >= 2
    /\ Len(succ_graph) >= 3

(***************************************************************************)
(* C12: the iteration order of uid_to_nodes is the order in which          *)
(* uid_to_id assigned the ids, so to_jinja_string emits the top-level uid  *)
(* entries in ascending order of their compact ids.                        *)
(***************************************************************************)
\* the keys of an encoded mapping are the ids of the uids of uid_to_nodes, in
\* this order, and they ascend
TopLevelAscending(encoded) ==
    /\ Len(encoded) = Len(uid_to_nodes)
    /\ \A i \in 1..Len(encoded) :
        encoded[i].key = StrOfNat(uid_to_id[uid_to_nodes[i].uid])
    /\ \A i, j \in 1..Len(encoded) :
        i < j => ParseInt(encoded[i].key) < ParseInt(encoded[j].key)

C12_UidEntriesInIdOrder ==
    /\ { uid_to_nodes[i].uid : i \in 1..Len(uid_to_nodes) } = DOMAIN uid_to_id
    /\ \A i, j \in 1..Len(uid_to_nodes) :
        i < j => uid_to_id[uid_to_nodes[i].uid] < uid_to_id[uid_to_nodes[j].uid]
    /\ pc \in {"preds", "done", "rendered"} => TopLevelAscending(succ_graph)
    /\ pc \in {"done", "rendered"} => TopLevelAscending(pred_graph)

\* both encodings have three uid entries, introduced by two resources
C12_Witness ==
    /\ pc = "done"
    /\ Len(succ_graph) = 3
    /\ Len(pred_graph) = 3
    /\ Len(target_profile) = 1

(***************************************************************************)
(* C13: within each uid entry, to_jinja_string emits the positions of the  *)
(* uid in ascending numeric order, for every order in which the records    *)
(* introduced them.  The code does not sort them:                          *)
(* C13_PositionsAscending states the claim; C13_PositionsInCreationOrder   *)
(* states what holds instead: the positions of a uid are emitted in the    *)
(* order in which get_node created the nodes of the uid.                   *)
(***************************************************************************)
PositionsAscending(encoded) ==
    \A i \in 1..Len(encoded) : \A j, k \in 1..Len(encoded[i].val) :
        j < k => ParseInt(encoded[i].val[j].key) < ParseInt(encoded[i].val[k].key)

C13_PositionsAscending ==
    /\ pc \in {"preds", "done", "rendered"} => PositionsAscending(succ_graph)
    /\ pc \in {"done", "rendered"} => PositionsAscending(pred_graph)

\* the nodes that get_node receives, in the order of the calls
GetNodeNames(cs) == Flatten([i \in 1..Len(cs) |-> << cs[i].src, cs[i].tgt >>])

IsPrefix(s, t) == Len(s) <= Len(t) /\ SubSeq(t, 1, Len(s)) = s

\* the list of every uid keeps its nodes and gets the new nodes behind them, in
\* the order in which get_node first receives them
C13_Step ==
    /\ Len(uid_to_nodes) <= Len(uid_to_nodes')
    /\ \A i \in 1..Len(uid_to_nodes) :
        /\ uid_to_nodes'[i].uid = uid_to_nodes[i].uid
        /\ IsPrefix(uid_to_nodes[i].nodes, uid_to_nodes'[i].nodes)
    /\ \A seq \in {GetNodeNames(calls')} :
        \A i \in 1..Len(uid_to_nodes') : \A j, k \in 1..Len(uid_to_nodes'[i].nodes) :
            \A a \in {uid_to_nodes'[i].nodes[j]}, b \in {uid_to_nodes'[i].nodes[k]} :
                (j < k /\ b \notin DOMAIN nodes) =>
                    \/ a \in DOMAIN nodes
                    \/ /\ IsProcessStep
                       /\ a \in Range(seq) /\ b \in Range(seq)
                       /\ FirstIndex(seq, a) < FirstIndex(seq, b)

\* the positions of an encoded mapping are those of the nodes of uid_to_nodes,
\* list by list in the order of the list
PositionsAsListed(encoded) ==
    \A i \in 1..Len(encoded) :
        /\ Len(encoded[i].val) = Len(uid_to_nodes[i].nodes)
        /\ \A j \in 1..Len(encoded[i].val) :
            encoded[i].val[j].key = StrOfNat(get_order(nodes[uid_to_nodes[i].nodes[j]]))

C13_Emitted ==
    /\ pc \in {"preds", "done", "rendered"} => PositionsAsListed(succ_graph)
    /\ pc \in {"done", "rendered"} => PositionsAsListed(pred_graph)

C13_PositionsInCreationOrder == []C13_Emitted /\ [][pc # "start" => C13_Step]_vars

\* a uid whose deeper position was created first is encoded with that position first
C13_Witness ==
    /\ pc = "done"
    /\ \E i \in 1..Len(succ_graph) :
        /\ Len(succ_graph[i].val) = 2
        /\ ParseInt(succ_graph[i].val[1].key) > ParseInt(succ_graph[i].val[2].key)

(***************************************************************************)
(* C14: the output handed to the renderer contains a stats list of the     *)
(* metric names in the order in which they were first observed, and in     *)
(* every encoded stats vector slot i holds the baseline sum and slot       *)
(* |stats| + i the target sum of the i-th metric name of that list.        *)
(***************************************************************************)
\* the characters of a key of a resource
KeyChars(key) ==
    CASE key = "amount" -> << "a", "m", "o", "u", "n", "t" >>
      [] key = "time" -> << "t", "i", "m", "e" >>
      [] key = "uid" -> << "u", "i", "d" >>
      [] key = "trace" -> << "t", "r", "a", "c", "e" >>
      [] key = "label" -> << "l", "a", "b", "e", "l" >>

\* the keys that the resources of a profile hand to add_stat, in this order
ObservedKeys(profile, inclusive) ==
    Flatten([i \in 1..Len(profile) |->
        IF EdgesOf(profile[i], inclusive) = <<>> THEN <<>>
        ELSE LET conv == SelectSeq(profile[i], LAMBDA it : try_convert(it.val) # None)
             IN  [j \in 1..Len(conv) |-> conv[j].key]])

\* a sequence without the repetitions of its elements
RECURSIVE FirstOccurrences(_)
FirstOccurrences(seq) ==
    IF seq = <<>> THEN <<>>
    ELSE LET front == FirstOccurrences(SubSeq(seq, 1, Len(seq) - 1))
         IN  IF seq[Len(seq)] \in Range(front) THEN front
             ELSE Append(front, seq[Len(seq)])

\* the metric names in the order in which the two passes first observed them
FirstObserved ==
    FirstOccurrences(ObservedKeys(baseline_profile, trace_is_inclusive)
                     \o ObservedKeys(target_profile, trace_is_inclusive))

C14_StatsListsMetricNames ==
    pc = "rendered" =>
        \A names \in {FirstObserved} :
            /\ render_stats =
                << "[" >> \o Join([i \in 1..Len(names) |-> KeyChars(names[i])]) \o << "]" >>
            /\ \A s \in 1..Len(heap) :
                \A vector \in {Entries(StatsString(heap[s], KnownStats))} :
                    /\ Len(vector) = 2 * Len(names)
                    /\ \A i \in 1..Len(names) :
                        /\ vector[i] = StrOfNat(DictGet(heap[s].baseline, names[i]))
                        /\ vector[Len(names) + i] =
                            StrOfNat(DictGet(heap[s].target, names[i]))

(***************************************************************************)
(* C15: every stats id emitted in the successor or the predecessor payload *)
(* is an index of the stats table handed to the renderer, and the entry at *)
(* that index is the vector of that link; two links get the same id iff    *)
(* their vector strings are equal; and the ids are 0..k-1 in the order in  *)
(* which the vectors were first encoded.                                   *)
(***************************************************************************)
\* the vectors "[...]" of the text "[...],[...]"
RECURSIVE VectorsOf(_, _, _)
VectorsOf(s, cur, acc) ==
    IF s = <<>> THEN acc
    ELSE IF Head(s) = "]" THEN VectorsOf(Tail(s), <<>>, Append(acc, Append(cur, "]")))
    ELSE IF Head(s) = "," /\ cur = <<>> THEN VectorsOf(Tail(s), <<>>, acc)
    ELSE VectorsOf(Tail(s), Append(cur, Head(s)), acc)

\* the list that the text of the stats argument denotes
ParseTable(str) == VectorsOf(SubSeq(str, 2, Len(str) - 1), <<>>, <<>>)

\* the stats ids of an encoded mapping, in the order they are written
EmittedIds(encoded) ==
    Flatten([i \in 1..Len(encoded) |->
        Flatten([j \in 1..Len(encoded[i].val) |->
            [k \in 1..Len(encoded[i].val[j].val) |->
                ParseInt(encoded[i].val[j].val[k].val)]])])

\* the vectors of the links of one type, in the order the encoding visits them
LinkVectors(link_type) ==
    LET visited == Visited(TheGraph, link_type)
    IN  [p \in 1..Len(visited) |-> StatsString(heap[visited[p].link.stats], KnownStats)]

C15_IdsIndexTheTable ==
    pc = "rendered" =>
        \A table \in {ParseTable(render_stats)},
           ids \in {EmittedIds(succ_graph) \o EmittedIds(pred_graph)},
           vectors \in {LinkVectors("succs") \o LinkVectors("preds")} :
            /\ Len(ids) = Len(vectors)
            /\ \A p \in 1..Len(ids) :
                /\ ids[p] \in 0..(Len(table) - 1)
                /\ table[ids[p] + 1] = vectors[p]
            /\ \A p, q \in 1..Len(ids) : ids[p] = ids[q] <=> vectors[p] = vectors[q]
            /\ table = FirstOccurrences(vectors)

\* three different vectors are in the table, and one of them is emitted for a
\* successor link and for a predecessor link
C15_Witness ==
    /\ pc = "rendered"
    /\ Len(ParseTable(render_stats)) = 3
    /\ \E p \in 1..Len(EmittedIds(succ_graph)), q \in 1..Len(EmittedIds(pred_graph)) :
        EmittedIds(succ_graph)[p] = EmittedIds(pred_graph)[q]

(***************************************************************************)
(* C16: the nodes argument lists every uid of uid_to_id once, in ascending *)
(* order of the ids; the node_map argument has the same length, and        *)
(* node_map[i] is the strictly ascending list of exactly the positions p   *)
(* for which the graph has a node nodes[i]#p.                              *)
(***************************************************************************)
\* the uid and the position of the positional identity f"{uid}#{pos}"
UidOfNode(node) ==
    LET parts == Split(node)
    IN  Flatten([i \in 1..(Len(parts) - 1) |->
            IF i = 1 THEN parts[i] ELSE << "#" >> \o parts[i]])

PosOfNode(node) == ParseInt(Split(node)[Len(Split(node))])

C16_SideTables ==
    pc = "rendered" =>
        /\ Len(render_nodes) = Cardinality(DOMAIN uid_to_id)
        /\ Range(render_nodes) = DOMAIN uid_to_id
        /\ \A i, j \in 1..Len(render_nodes) :
            i < j => uid_to_id[render_nodes[i]] < uid_to_id[render_nodes[j]]
        /\ Len(render_node_map) = Len(render_nodes)
        /\ \A i \in 1..Len(render_node_map) :
            /\ \A j, k \in 1..Len(render_node_map[i]) :
                j < k => render_node_map[i][j] < render_node_map[i][k]
            /\ \A p \in Range(render_node_map[i]) :
                NodeStr(render_nodes[i], p) \in DOMAIN nodes
            /\ \A n \in DOMAIN nodes :
                UidOfNode(n) = render_nodes[i] => PosOfNode(n) \in Range(render_node_map[i])

(***************************************************************************)
(* C17: generate_sankey_difference decides the mode once, before either    *)
(* profile is processed: a baseline profile of the collector kperf makes   *)
(* it inclusive whatever it was before, any other baseline leaves it as it *)
(* was, the collector of the target profile plays no part, and every       *)
(* resource of both passes is processed in the mode so decided.            *)
(***************************************************************************)
C17_Step ==
    /\ (pc = "start" /\ pc' # "start") =>
        trace_is_inclusive' = (lhs_name' = "kperf" \/ trace_is_inclusive)
    /\ pc # "start" => trace_is_inclusive' = trace_is_inclusive
    /\ IsProcessStep =>
        \A edges \in {EdgesOf(StepResource, trace_is_inclusive)} :
            /\ Len(calls') = Len(edges)
            /\ \A i \in 1..Len(edges) :
                calls'[i].src = edges[i].src /\ calls'[i].tgt = edges[i].tgt

C17_ModeDecidedOnce == [][C17_Step]_vars

\* a later call of the process, with a kperf baseline and another target,
\* processes a target resource of three frames inclusively
C17_Witness ==
    /\ rerun
    /\ lhs_name = "kperf"
    /\ rhs_name = "trace"
    /\ pc = "target"
    /\ baseline_profile # <<>>
    /\ Len(calls) = 2

(***************************************************************************)
(* C18: the configuration is that of one diff run: every call whose        *)
(* baseline profile is not of the collector kperf (the caller having set   *)
(* nothing) runs in the default exclusive mode, also when an earlier call  *)
(* of the same process had a kperf baseline.                               *)
(***************************************************************************)
C18_ExclusiveUnlessKperf ==
    (pc # "start" /\ lhs_name # "kperf") => ~trace_is_inclusive

(***************************************************************************)
(* C19: a resource whose trace is empty (a full trace of one frame)        *)
(* contributes nothing in either mode: process_traces makes no             *)
(* process_edge call for it, leaves nodes, uid_to_nodes, uid_to_id, every  *)
(* link and sum and Stats.KnownStats as they are, raises nothing and goes  *)
(* on with the loop.                                                       *)
(***************************************************************************)
C19_Step ==
    (IsProcessStep /\ Len(FullTrace(StepResource)) = 1) =>
        /\ calls' = <<>>
        /\ UNCHANGED << nodes, uid_to_nodes, uid_to_id, heap, KnownStats, stats_to_id >>
        /\ error' = "none"
        /\ pc' = pc

C19_EmptyTraceContributesNothing == [][C19_Step]_vars

\* a resource with an empty trace is processed in the inclusive mode, after a
\* resource that has built links and before another one
C19_Witness ==
    /\ trace_is_inclusive
    /\ Len(baseline_profile) = 3
    /\ Len(FullTrace(baseline_profile[2])) = 1
    /\ Len(heap) = 6

(***************************************************************************)
(* C20: the order of the two passes does not affect what the graph         *)
(* accumulates: the target pass followed by the baseline pass gives the    *)
(* same positional nodes, the same successor and predecessor links and, on *)
(* every link, the same sum per role and metric as the baseline pass       *)
(* followed by the target pass.                                            *)
(***************************************************************************)
\* Graph()
EmptyGraph ==
    [nodes |-> EmptyDict, uid_to_nodes |-> <<>>, uid_to_id |-> EmptyDict,
     heap |-> <<>>, known |-> {}]

\* process_traces(profile, profile_type, graph): the graph afterwards
RECURSIVE process_traces(_, _, _, _)
process_traces(g, profile_type, profile, inclusive) ==
    IF profile = <<>> THEN g
    ELSE CHOOSE after \in
            { process_traces(g1, profile_type, Tail(profile), inclusive) :
                g1 \in {process_resource(g, profile_type, Head(profile), inclusive)} } :
            TRUE

\* the graph of the two profiles when the target pass comes first
TargetFirst ==
    CHOOSE after \in
        { process_traces(g, "baseline", baseline_profile, trace_is_inclusive) :
            g \in {process_traces(EmptyGraph, "target", target_profile,
                                  trace_is_inclusive)} } :
        TRUE

\* the sums of every role and key on the links of one direction of a node
LinkSums(g, links) ==
    [k \in { links[i].key : i \in 1..Len(links) } |->
        [role \in Roles |-> [key \in AllKeys |->
            DictGet(RoleDict(g.heap[LinkOf(links, k).stats], role), key)]]]

\* the positional nodes of a graph, their links and the sums on the links
GraphContent(g) ==
    [n \in DOMAIN g.nodes |->
        [succs |-> LinkSums(g, g.nodes[n].succs),
         preds |-> LinkSums(g, g.nodes[n].preds)]]

C20_PassOrderIrrelevant ==
    pc = "succs" =>
        \A swapped \in {TargetFirst} : GraphContent(TheGraph) = GraphContent(swapped)

\* both profiles have resources, of different edges and of a common one, and
\* the target resources create nodes that the baseline pass would create first
C20_Witness ==
    /\ pc = "succs"
    /\ Len(baseline_profile) = 1
    /\ Len(target_profile) = 2
    /\ target_profile[1] # baseline_profile[1]
    /\ target_profile[2] = baseline_profile[1]
    /\ TargetFirst.uid_to_id # uid_to_id
    /\ Len(heap) >= 4

(***************************************************************************)
(* C21: Stats.KnownStats holds every metric name that has a sum in any     *)
(* Stats and only grows: nothing removes a name and a new Graph does not   *)
(* clear it.  So in a later run of the same process every encoded vector   *)
(* still has 2 * |KnownStats| entries, with 0 in the slots of the metrics  *)
(* that only the earlier run has observed.                                 *)
(***************************************************************************)
C21_Registered ==
    /\ \A s \in 1..Len(heap) :
        DOMAIN heap[s].baseline \cup DOMAIN heap[s].target \subseteq Range(KnownStats)
    /\ pc \in {"preds", "done", "rendered"} =>
        /\ \A s \in 1..Len(heap) : C8_VectorOf(heap[s])
        /\ \A str \in DOMAIN stats_to_id : Len(Entries(str)) = 2 * Len(KnownStats)

C21_Step == Range(KnownStats) \subseteq Range(KnownStats')

C21_RegistryOnlyGrows == []C21_Registered /\ [][C21_Step]_vars

\* the second run of the process has encoded links with sums of one metric,
\* while the registry still holds the other metric of the first run
C21_Witness ==
    /\ rerun
    /\ pc = "done"
    /\ Len(KnownStats) = 2
    /\ heap # <<>>
    /\ \A s \in 1..Len(heap) : DOMAIN heap[s].baseline \cup DOMAIN heap[s].target = {"amount"}
    /\ \A str \in DOMAIN stats_to_id : Len(Entries(str)) = 4


(***************************************************************************)
(* The web collector: collect and wait_until_server_starts                 *)
(***************************************************************************)

\* the default of max_attempts, which collect leaves in place
DefaultMaxAttempts == 10

\* what requests.get(url) can do: answer with a status code, or raise
Response(raised, status_code) == [raised |-> raised, status_code |-> status_code]

Responses ==
    { Response("", 200), Response("", 404), Response("ConnectionError", 0),
      Response("TooManyRedirects", 0) }

\* len(range(n))
RangeLen(n) == IF n < 0 THEN 0 ELSE n

\* a call of wait_until_server_starts(url, max_attempts, wait_time)
wait_until_server_starts ==
    /\ wait_pc = "idle"
    /\ collect_pc = "none"
    /\ \E n \in -1..MaxAttempts : max_attempts' = n
    /\ wait_pc' = "for"
    /\ UNCHANGED << sankey, attempts, responses, sleeps, result, collect_pc >>

\* for _ in range(max_attempts): the next iteration, or return False
ForAttempt ==
    /\ wait_pc = "for"
    /\ IF attempts < RangeLen(max_attempts)
       THEN /\ attempts' = attempts + 1
            /\ wait_pc' = "request"
            /\ UNCHANGED result
       ELSE /\ result' = "False"
            /\ wait_pc' = "returned"
            /\ UNCHANGED attempts
    /\ UNCHANGED << sankey, max_attempts, responses, sleeps, collect_pc >>

\* the try block without the test of the status: every answer returns True
RequestOf_AnyStatus(r) ==
    /\ responses' = Append(responses, r)
    /\ IF r.raised = ""
       THEN /\ result' = "True"
            /\ wait_pc' = "returned"
       ELSE IF r.raised = "ConnectionError"
            THEN /\ wait_pc' = "sleep"
                 /\ UNCHANGED result
            ELSE /\ wait_pc' = "raised"
                 /\ UNCHANGED result

\* the try block with r the outcome of requests.get(url): status 200 returns
\* True, any other status and a ConnectionError go on to the sleep, another
\* exception leaves the function
RequestOf(r) ==
    /\ responses' = Append(responses, r)
    /\ IF r.raised = ""
       THEN IF r.status_code = 200
            THEN /\ result' = "True"
                 /\ wait_pc' = "returned"
            ELSE /\ wait_pc' = "sleep"
                 /\ UNCHANGED result
       ELSE IF r.raised = "ConnectionError"
            THEN /\ wait_pc' = "sleep"
                 /\ UNCHANGED result
            ELSE /\ wait_pc' = "raised"
                 /\ UNCHANGED result

Request ==
    /\ wait_pc = "request"
    /\ \E r \in Responses : RequestOf(r)
    /\ UNCHANGED << sankey, max_attempts, attempts, sleeps, collect_pc >>

\* sleep(wait_time)
Sleep ==
    /\ wait_pc = "sleep"
    /\ sleeps' = sleeps + 1
    /\ wait_pc' = "for"
    /\ UNCHANGED << sankey, max_attempts, attempts, responses, result, collect_pc >>

\* collect up to its call wait_until_server_starts(server_url)
collect ==
    /\ collect_pc = "none"
    /\ wait_pc = "idle"
    /\ collect_pc' = "Warm up phase..."
    /\ max_attempts' = DefaultMaxAttempts
    /\ wait_pc' = "for"
    /\ UNCHANGED << sankey, attempts, responses, sleeps, result >>

\* collect after the call: the branch on what it returned, or its exception
CollectPhase ==
    /\ collect_pc = "Warm up phase..."
    /\ wait_pc \in {"returned", "raised"}
    /\ collect_pc' = IF wait_pc = "raised" THEN "raised"
                     ELSE IF result = "True" THEN "Collecting finished..."
                     ELSE "Could not start profiler or target project..."
    /\ UNCHANGED << sankey, wait_pc, max_attempts, attempts, responses, sleeps,
                    result >>

NextWait ==
    \/ wait_until_server_starts
    \/ collect
    \/ ForAttempt
    \/ Request
    \/ Sleep
    \/ CollectPhase

\* every step of the function that can be taken is taken in the end: a call
\* of requests.get or of sleep comes back
SpecWait == Init /\ [][NextWait]_vars /\ WF_vars(NextWait)


(***************************************************************************)
(* C22                                                                     *)
(***************************************************************************)

\* an attempt that failed: a ConnectionError, or an answer whose status is not 200
FailedAttempt(r) ==
    \/ r.raised = "ConnectionError"
    \/ r.raised = "" /\ r.status_code # 200

Succeeded(r) == r.raised = "" /\ r.status_code = 200

FailedAttempts == { i \in 1..Len(responses) : FailedAttempt(responses[i]) }

Terminated == wait_pc \in {"returned", "raised"}

C22_Bounded ==
    \* at most max_attempts requests, one per iteration
    /\ Len(responses) <= attempts
    /\ attempts <= (IF max_attempts > 0 THEN max_attempts ELSE 0)
    /\ wait_pc \in {"for", "sleep", "returned", "raised"} => Len(responses) = attempts
    \* only the last request made can be other than a failed attempt
    /\ \A i \in 1..Len(responses) - 1 : FailedAttempt(responses[i])
    \* one wait after each failed attempt, the last one included
    /\ sleeps = Cardinality(FailedAttempts) - (IF wait_pc = "sleep" THEN 1 ELSE 0)
    \* True at the attempt answered with status 200
    /\ result = "True" <=>
          /\ wait_pc = "returned"
          /\ responses # <<>>
          /\ Succeeded(responses[Len(responses)])
    \* False exactly when all max_attempts attempts failed
    /\ result = "False" <=>
          /\ wait_pc = "returned"
          /\ Len(responses) = (IF max_attempts > 0 THEN max_attempts ELSE 0)
          /\ \A i \in 1..Len(responses) : FailedAttempt(responses[i])
    /\ wait_pc = "returned" => result \in {"True", "False"}

\* once the function is left, no request and no wait follows
C22_Step ==
    Terminated =>
        /\ responses' = responses
        /\ sleeps' = sleeps
        /\ result' = result
        /\ Terminated'

\* C22: wait_until_server_starts makes at most max_attempts requests and
\* comes to an end: it returns True at the first attempt answered with status
\* 200 and makes no further request, it waits once after every attempt that
\* ended in a ConnectionError or in another status, and it returns False
\* exactly when all max_attempts attempts failed
C22_WaitTerminates ==
    /\ []C22_Bounded
    /\ [][C22_Step]_vars
    /\ (wait_pc # "idle") ~> Terminated

\* collect's call with the default of ten attempts: nine failed attempts, each
\* followed by a wait, then status 200 at the tenth, and no request after it
C22_Witness ==
    /\ collect_pc = "Collecting finished..."
    /\ result = "True"
    /\ Len(responses) = DefaultMaxAttempts
    /\ sleeps = DefaultMaxAttempts - 1
    /\ \E i \in 1..Len(responses) : responses[i].raised = "ConnectionError"
    /\ \E i \in 1..Len(responses) : responses[i] = Response("", 404)


(***************************************************************************)
(* C23: the predecessor encoding is the transpose of the successor         *)
(* encoding.                                                               *)
(***************************************************************************)
\* the entries (uid id, position, target uid id, stats id) of an encoded
\* mapping, in the order they are written
EntriesOf(encoded) ==
    Flatten([i \in 1..Len(encoded) |->
        Flatten([j \in 1..Len(encoded[i].val) |->
            [k \in 1..Len(encoded[i].val[j].val) |->
                << ParseInt(encoded[i].key), ParseInt(encoded[i].val[j].key),
                   ParseInt(encoded[i].val[j].val[k].key),
                   ParseInt(encoded[i].val[j].val[k].val) >>]])])

Transposed(e) == << e[3], e[2] + 1, e[1], e[4] >>

\* C23: once both encodings are written, the successor encoding has the entry
\* (u, p, v, s) if and only if the predecessor encoding has the entry
\* (v, p + 1, u, s), with the same id s of the stats vector
C23_PredsTransposeSuccs ==
    pc \in {"done", "rendered"} =>
        \A succs \in {Range(EntriesOf(succ_graph))},
           preds \in {Range(EntriesOf(pred_graph))} :
            /\ \A e \in succs : Transposed(e) \in preds
            /\ \A e \in preds : \E f \in succs : Transposed(f) = e

\* three successor entries with two different stats ids between three uids,
\* one of them leaving position 1
C23_Witness ==
    /\ pc = "done"
    /\ \A succs \in {Range(EntriesOf(succ_graph))} :
        /\ Cardinality(succs) = 3
        /\ Cardinality({ e[4] : e \in succs }) >= 2
        /\ \E e \in succs : e[2] = 1
        /\ \A e \in succs : Transposed(e) \in Range(EntriesOf(pred_graph))


(***************************************************************************)
(* C24: no mapping of an encoding repeats a key.                           *)
(***************************************************************************)
\* the keys of the items of one mapping differ from one another
DistinctKeys(items) ==
    \A i, j \in 1..Len(items) : i # j => items[i].key # items[j].key

NoRepeatedKey(encoded) ==
    /\ DistinctKeys(encoded)
    /\ \A i \in 1..Len(encoded) :
        /\ DistinctKeys(encoded[i].val)
        /\ \A j \in 1..Len(encoded[i].val) : DistinctKeys(encoded[i].val[j].val)

\* C24: in the output of to_jinja_string each uid id appears once at the top
\* level, each position once under its uid, and each target uid id at most
\* once under one (uid, position) entry
C24_NoRepeatedKey ==
    /\ pc \in {"preds", "done", "rendered"} => NoRepeatedKey(succ_graph)
    /\ pc \in {"done", "rendered"} => NoRepeatedKey(pred_graph)


(***************************************************************************)
(* C25: in inclusive mode the flow that enters a call context is never     *)
(* less than the flow that leaves it.                                      *)
(***************************************************************************)
\* the sum of (role, key) over the links of one direction of a node
RECURSIVE FlowOver(_, _, _)
FlowOver(links, role, key) ==
    IF links = <<>> THEN 0
    ELSE DictGet(RoleDict(heap[Head(links).stats], role), key)
         + FlowOver(Tail(links), role, key)

\* the metric values of the resources are non-negative integers
NonNegativeValues ==
    \A r \in Resources : \A i \in 1..Len(r) :
        try_convert(r[i].val) # None => try_convert(r[i].val) >= 0

\* C25: in inclusive mode, after every processed record, a node at a position
\* p >= 1 has a predecessor link and, for every role and metric, the sum over
\* its predecessor links is at least the sum over its successor links; a node
\* at position 0 has no predecessor link
C25_InflowCoversOutflow ==
    trace_is_inclusive /\ NonNegativeValues =>
        \A n \in DOMAIN nodes :
            IF PosOfNode(n) = 0
            THEN nodes[n].preds = <<>>
            ELSE /\ nodes[n].preds # <<>>
                 /\ \A role \in Roles, key \in AllKeys :
                     FlowOver(nodes[n].preds, role, key)
                         >= FlowOver(nodes[n].succs, role, key)

\* an inner node that a deeper record passes through, with one metric, and that
\* another record ends at, with another metric: more enters than leaves
C25_Witness ==
    /\ trace_is_inclusive
    /\ \E n \in DOMAIN nodes :
        /\ PosOfNode(n) = 1
        /\ nodes[n].succs # <<>>
        /\ \E role \in Roles, key \in AllKeys :
            /\ FlowOver(nodes[n].succs, role, key) > 0
            /\ FlowOver(nodes[n].preds, role, key) = FlowOver(nodes[n].succs, role, key)
        /\ \E role \in Roles, key \in AllKeys :
            FlowOver(nodes[n].preds, role, key) > FlowOver(nodes[n].succs, role, key)
    /\ \E n \in DOMAIN nodes : PosOfNode(n) = 0 /\ nodes[n].succs # <<>>

=============================================================================
